---- MODULE Spec2Model ----
(***************************************************************************)
(* Model of the notedeck iOS rendering bridge:                             *)
(*   crates/notedeck_ios/src/renderer.rs  NotedeckRenderer                 *)
(*   crates/notedeck_ios/src/input.rs     InputEvent::into_egui_event      *)
(* The host (Swift) calls set_safe_area, resize and render on one retained *)
(* NotedeckRenderer.  render is modelled statement group by statement      *)
(* group (pc), because the claims speak about the order of its GPU steps.  *)
(* The UI toolkit (egui) and the GPU transport (wgpu) are collaborators:   *)
(* what they hand back (platform output, texture delta, success or failure *)
(* of get_current_texture) is chosen nondeterministically.                 *)
(***************************************************************************)
EXTENDS Integers, Sequences, FiniteSets, TLC

VARIABLES
    config,         \* self.config: wgpu::SurfaceConfiguration (width, height, format)
    surface,        \* what self.surface was last configured with
    context,        \* self.context: the toolkit's retained state
    raw_input,      \* self.raw_input: egui::RawInput (its event queue and screen rect)
    egui_renderer,  \* self.egui_renderer: the textures the GPU renderer holds
    safe_area,      \* self.safe_area: SafeAreaInsets
    display_scale,  \* self.display_scale
    pc,             \* position of the host's current call inside render
    tick,           \* the locals of the render call, while the last host call is a render
    gpu_ops,        \* the GPU steps of that render call so far, in order
    out,            \* the OutputState that render call returned
    entry,          \* the renderer fields as they were when the last host call was entered
    last_call,      \* the last host call and whether it configured the surface
    last_resize,    \* arguments of the last resize call that had two nonzero dimensions
    pass,           \* what the toolkit and the application decided in the tick's pass
    last_safe,      \* arguments of the last set_safe_area call, all 0.0 before the first
    ev,             \* an InputEvent at the FFI boundary, to be translated
    ev_results,     \* the results of into_egui_event on ev, one per translation
    NOTEDECK_IOS,   \* ios.rs:140: the process-wide Option<NotedeckIos>
    ios_pc,         \* where notedeck_ios_init is: "Idle" or "assign"
    ios_new,        \* the NotedeckIos built by the init call in flight, not yet assigned
    ios_live,       \* ids of the NotedeckIos instances constructed and not yet dropped
    ios_created,    \* how many NotedeckIos instances were constructed so far
    ios_dropped,    \* the drops so far: which instance, in which call
    ios_ret,        \* what notedeck_ios_is_initialized returned, when it was the last call
    ios_last,       \* the last completed call of notedeck_ios_init and notedeck_ios_cleanup
    paste_content,  \* clipboard.rs:68: IosClipboard.paste_content (the Option in the mutex)
    copy_content,   \* clipboard.rs:70: IosClipboard.copy_content (the Option in the mutex)
    clip_ret,       \* what the last call on the clipboard returned (none for the writes)
    clip_log        \* the calls made on the clipboard so far, in order

\* the renderer and its render call
rvars == <<config, surface, context, raw_input, egui_renderer, safe_area,
           display_scale, pc, tick, entry, gpu_ops, out, last_call, last_resize,
           last_safe, pass>>

\* the Input Translator on its own
tvars == <<ev, ev_results>>

\* the process-wide NotedeckIos of notedeck_chrome
ivars == <<NOTEDECK_IOS, ios_pc, ios_new, ios_live, ios_created, ios_dropped, ios_ret,
           ios_last>>

\* the IosClipboard of notedeck
cvars == <<paste_content, copy_content, clip_ret, clip_log>>

\* what a call on the renderer leaves alone
aside == <<tvars, ivars, cvars>>

vars == <<rvars, tvars, ivars, cvars>>

----------------------------------------------------------------------------
(* Bounds and input domains                                                *)

\* longest batch of input events the host passes to one render call
MaxBatch == 2

\* how often one event is translated when the translation is repeated
MaxTranslations == 2

\* how many NotedeckIos instances the host has constructed at most
MaxInits == 3

\* how many calls on the clipboard are followed
MaxClipOps == 4

\* f32 values: a finite value is kept as a whole number of half points
Fin(h) == [k |-> "fin", h |-> h]
NaN == [k |-> "nan", h |-> 0]
PosInf == [k |-> "inf", h |-> 1]
NegInf == [k |-> "inf", h |-> -1]
Pt(n) == Fin(2 * n)

\* renderer.rs:37-43
SafeAreaInsets(top, right, bottom, left) ==
    [top |-> top, right |-> right, bottom |-> bottom, left |-> left]

\* #[derive(Default)] on SafeAreaInsets: all fields 0.0
SafeAreaInsets_default == SafeAreaInsets(Pt(0), Pt(0), Pt(0), Pt(0))

\* argument tuples the host passes to set_safe_area
SafeAreaArgs ==
    { SafeAreaInsets(Pt(47), Pt(0), Pt(34), Pt(0)),
      SafeAreaInsets(Pt(-5), Fin(5), Pt(300), NaN),
      SafeAreaInsets(Pt(-200), Fin(-1), Fin(255), PosInf) }

\* argument pairs the host passes to resize
ResizeArgs ==
    { <<0, 0>>, <<0, 600>>, <<800, 0>>, <<800, 600>>, <<1024, 768>> }

\* renderer.rs:127  tex_format
tex_format == "Bgra8UnormSrgb"

\* arguments of NotedeckRenderer::new used for the constructed state
NewArgs == [width |-> 390, height |-> 844, display_scale |-> 3]

----------------------------------------------------------------------------
(* NotedeckRenderer::set_safe_area and NotedeckRenderer::resize            *)

\* set_safe_area with the right and left arguments stored in each other's field
set_safe_area_swapped(top, right, bottom, left) ==
    SafeAreaInsets(top, left, bottom, right)

\* renderer.rs:194-200
set_safe_area(top, right, bottom, left) ==
    SafeAreaInsets(top, right, bottom, left)

\* resize with the zero check on both dimensions at once (&& for ||)
resize_both_zero(cfg, width, height) ==
    IF width = 0 /\ height = 0
    THEN [config |-> cfg, configure |-> FALSE]
    ELSE [config |-> [cfg EXCEPT !.width = width, !.height = height],
          configure |-> TRUE]

\* resize that stores the width before it looks at the height
resize_width_first(cfg, width, height) ==
    IF width = 0
    THEN [config |-> cfg, configure |-> FALSE]
    ELSE IF height = 0
    THEN [config |-> [cfg EXCEPT !.width = width], configure |-> FALSE]
    ELSE [config |-> [cfg EXCEPT !.width = width, !.height = height],
          configure |-> TRUE]

\* renderer.rs:227-235: the new config and whether surface.configure ran
resize(cfg, width, height) ==
    IF width = 0 \/ height = 0
    THEN [config |-> cfg, configure |-> FALSE]
    ELSE [config |-> [cfg EXCEPT !.width = width, !.height = height],
          configure |-> TRUE]

----------------------------------------------------------------------------
(* InputEvent and InputEvent::into_egui_event (input.rs)                   *)

\* input.rs:4-31: one record shape for all variants, unused fields at a default
InputEvent(type, x, y, pressed, code, text) ==
    [type |-> type, x |-> x, y |-> y, pressed |-> pressed, code |-> code, text |-> text]

PointerMoved(x, y) == InputEvent("PointerMoved", x, y, FALSE, 0, "")
MouseWheel(x, y) == InputEvent("MouseWheel", x, y, FALSE, 0, "")
LeftMouseDown(x, y, pressed) == InputEvent("LeftMouseDown", x, y, pressed, 0, "")
RightMouseDown(x, y, pressed) == InputEvent("RightMouseDown", x, y, pressed, 0, "")
WindowFocused(focused) == InputEvent("WindowFocused", 0, 0, focused, 0, "")
ScenePhaseChanged(phase) == InputEvent("ScenePhaseChanged", 0, 0, FALSE, phase, "")
TextCommit(text) == InputEvent("TextCommit", 0, 0, FALSE, 0, text)
ImePreedit(text) == InputEvent("ImePreedit", 0, 0, FALSE, 0, text)
KeyboardVisibility(visible) == InputEvent("KeyboardVisibility", 0, 0, visible, 0, "")
VirtualKey(key_code, pressed) == InputEvent("VirtualKey", 0, 0, pressed, key_code, "")
CopyEvent == InputEvent("Copy", 0, 0, FALSE, 0, "")
CutEvent == InputEvent("Cut", 0, 0, FALSE, 0, "")
Paste(text) == InputEvent("Paste", 0, 0, FALSE, 0, text)

\* egui::Event as built by into_egui_event: kind, position or delta, button or key,
\* pressed / focused flag, text, repeat flag, modifiers
EguiEvent(kind, x, y, button, pressed, text, repeat) ==
    [kind |-> kind, x |-> x, y |-> y, button |-> button, pressed |-> pressed,
     text |-> text, repeat |-> repeat, modifiers |-> "NONE"]

\* the key table with a ninth code accepted
VirtualKeyName_nine_keys(key_code) ==
    CASE key_code = 0 -> "Backspace"
      [] key_code = 1 -> "Enter"
      [] key_code = 2 -> "Tab"
      [] key_code = 3 -> "Escape"
      [] key_code = 4 -> "ArrowUp"
      [] key_code = 5 -> "ArrowDown"
      [] key_code = 6 -> "ArrowLeft"
      [] key_code = 7 -> "ArrowRight"
      [] key_code = 8 -> "ArrowRight"
      [] OTHER -> ""

\* input.rs:76-86: the key of a virtual key code, "" for `_ => return None`
VirtualKeyName(key_code) ==
    CASE key_code = 0 -> "Backspace"
      [] key_code = 1 -> "Enter"
      [] key_code = 2 -> "Tab"
      [] key_code = 3 -> "Escape"
      [] key_code = 4 -> "ArrowUp"
      [] key_code = 5 -> "ArrowDown"
      [] key_code = 6 -> "ArrowLeft"
      [] key_code = 7 -> "ArrowRight"
      [] OTHER -> ""

\* the translation with the scene phase forwarded as a focus change
into_egui_event_phase_focus(e) ==
    CASE e.type = "PointerMoved" ->
            <<EguiEvent("PointerMoved", e.x, e.y, "", FALSE, "", FALSE)>>
      [] e.type = "MouseWheel" ->
            <<EguiEvent("MouseWheel", e.x, e.y, "Point", FALSE, "", FALSE)>>
      [] e.type = "LeftMouseDown" ->
            <<EguiEvent("PointerButton", e.x, e.y, "Primary", e.pressed, "", FALSE)>>
      [] e.type = "RightMouseDown" ->
            <<EguiEvent("PointerButton", e.x, e.y, "Secondary", e.pressed, "", FALSE)>>
      [] e.type = "WindowFocused" ->
            <<EguiEvent("WindowFocused", 0, 0, "", e.pressed, "", FALSE)>>
      [] e.type = "ScenePhaseChanged" ->
            <<EguiEvent("WindowFocused", 0, 0, "", e.code = 0, "", FALSE)>>
      [] e.type = "TextCommit" ->
            <<EguiEvent("Text", 0, 0, "", FALSE, e.text, FALSE)>>
      [] e.type = "ImePreedit" ->
            <<EguiEvent("Ime.Preedit", 0, 0, "", FALSE, e.text, FALSE)>>
      [] e.type = "KeyboardVisibility" -> <<>>
      [] e.type = "VirtualKey" ->
            IF VirtualKeyName(e.code) = ""
            THEN <<>>
            ELSE <<EguiEvent("Key", 0, 0, VirtualKeyName(e.code), e.pressed, "", FALSE)>>
      [] e.type = "Copy" -> <<EguiEvent("Copy", 0, 0, "", FALSE, "", FALSE)>>
      [] e.type = "Cut" -> <<EguiEvent("Cut", 0, 0, "", FALSE, "", FALSE)>>
      [] e.type = "Paste" -> <<EguiEvent("Paste", 0, 0, "", FALSE, e.text, FALSE)>>

\* input.rs:35-101: Option<egui::Event> as a sequence of length 0 (None) or 1 (Some)
into_egui_event(e) ==
    CASE e.type = "PointerMoved" ->
            <<EguiEvent("PointerMoved", e.x, e.y, "", FALSE, "", FALSE)>>
      [] e.type = "MouseWheel" ->
            <<EguiEvent("MouseWheel", e.x, e.y, "Point", FALSE, "", FALSE)>>
      [] e.type = "LeftMouseDown" ->
            <<EguiEvent("PointerButton", e.x, e.y, "Primary", e.pressed, "", FALSE)>>
      [] e.type = "RightMouseDown" ->
            <<EguiEvent("PointerButton", e.x, e.y, "Secondary", e.pressed, "", FALSE)>>
      [] e.type = "WindowFocused" ->
            <<EguiEvent("WindowFocused", 0, 0, "", e.pressed, "", FALSE)>>
      [] e.type = "ScenePhaseChanged" -> <<>>
      [] e.type = "TextCommit" ->
            <<EguiEvent("Text", 0, 0, "", FALSE, e.text, FALSE)>>
      [] e.type = "ImePreedit" ->
            <<EguiEvent("Ime.Preedit", 0, 0, "", FALSE, e.text, FALSE)>>
      [] e.type = "KeyboardVisibility" -> <<>>
      [] e.type = "VirtualKey" ->
            IF VirtualKeyName(e.code) = ""
            THEN <<>>
            ELSE <<EguiEvent("Key", 0, 0, VirtualKeyName(e.code), e.pressed, "", FALSE)>>
      [] e.type = "Copy" -> <<EguiEvent("Copy", 0, 0, "", FALSE, "", FALSE)>>
      [] e.type = "Cut" -> <<EguiEvent("Cut", 0, 0, "", FALSE, "", FALSE)>>
      [] e.type = "Paste" -> <<EguiEvent("Paste", 0, 0, "", FALSE, e.text, FALSE)>>

\* the events the host puts into the batches of a render call
TickEvents ==
    { LeftMouseDown(10, 10, TRUE), PointerMoved(20, 10), KeyboardVisibility(TRUE),
      Paste("a") }

\* the payloads a Paste event can carry
PasteTexts == {"a", "b"}

\* the batches: every sequence of at most MaxBatch of those events
Batches == UNION { [1..n -> TickEvents] : n \in 0..MaxBatch }

\* the conversion collecting in reverse (each result put in front)
RECURSIVE filter_map_reversed(_)
filter_map_reversed(input_events) ==
    IF input_events = <<>>
    THEN <<>>
    ELSE filter_map_reversed(Tail(input_events)) \o into_egui_event(Head(input_events))

\* renderer.rs:272-275: input_events.into_iter().filter_map(..).collect()
RECURSIVE filter_map_collect(_)
filter_map_collect(input_events) ==
    IF input_events = <<>>
    THEN <<>>
    ELSE into_egui_event(Head(input_events)) \o filter_map_collect(Tail(input_events))

----------------------------------------------------------------------------
(* Collaborators of render: the UI toolkit and the output descriptor       *)

\* texture ids the toolkit allocates
TexIds == {1}

\* a set of texture ids as the list the toolkit hands over
RECURSIVE AsList(_)
AsList(S) ==
    IF S = {} THEN <<>>
    ELSE LET m == CHOOSE x \in S : \A y \in S : x <= y IN <<m>> \o AsList(S \ {m})

\* full_output.textures_delta of one pass, for a toolkit that holds `tex`:
\* `set` lists textures it allocated or changed in the pass, `free` lists textures
\* it has released (one allocated in the same pass included)
TexturesDeltas(tex) ==
    UNION { { [set |-> AsList(S), free |-> AsList(F)] : F \in SUBSET (tex \cup S) } :
            S \in SUBSET TexIds }

\* an IME caret rectangle (x, y, width, height), Option as a sequence
ImeRect == [x |-> 12, y |-> 40, w |-> 2, h |-> 18]

\* what one toolkit pass reports: platform_output (cursor_icon, ime, copied_text)
\* and, beside it, ctx.wants_keyboard_input()
PassReports ==
    { [cursor_icon |-> "Default", ime |-> <<>>, copied_text |-> "", wants_keyboard |-> FALSE],
      [cursor_icon |-> "Text", ime |-> <<ImeRect>>, copied_text |-> "", wants_keyboard |-> TRUE],
      [cursor_icon |-> "Crosshair", ime |-> <<>>, copied_text |-> "a", wants_keyboard |-> FALSE] }

\* renderer.rs:289-292: the Result of chrome.update, the application's draw call
DrawResults == {"ok", "err"}

\* everything the toolkit and the application decide in one pass
PassChoices(tex) ==
    { [report |-> r, textures_delta |-> d, draw |-> u] :
        r \in PassReports, d \in TexturesDeltas(tex), u \in DrawResults }

\* From<egui::CursorIcon> for CursorIcon (output.rs): the five kinds of the closed
\* enum are kept, every other toolkit cursor becomes Default
CursorIcon_from(cursor_icon) ==
    IF cursor_icon \in {"Default", "PointingHand", "ResizeHorizontal", "ResizeVertical", "Text"}
    THEN cursor_icon
    ELSE "Default"

\* OutputState::with_full_state (output.rs)
OutputState_with_full_state(cursor_icon, wants_keyboard, ime_rect, copied_text) ==
    [cursor_icon |-> cursor_icon, wants_keyboard |-> wants_keyboard,
     ime_rect |-> ime_rect, copied_text |-> copied_text]

\* OutputState::new (output.rs): the cursor, nothing else requested
OutputState_new(cursor_icon) ==
    OutputState_with_full_state(cursor_icon, FALSE, <<>>, "")

\* the raw input handed over as a copy (clone for take): the queue stays
RawInput_clone(ri) ==
    [taken |-> ri, rest |-> ri]

\* egui::RawInput::take as used at renderer.rs:279: the queue is moved out
RawInput_take(ri) ==
    [taken |-> ri, rest |-> [ri EXCEPT !.events = <<>>, !.screen_rect = <<>>]]

\* the pointer position the toolkit retains after a pass over `events`
RECURSIVE LatestPos(_, _)
LatestPos(pos, events) ==
    IF events = <<>> THEN pos
    ELSE LatestPos(IF Head(events).kind \in {"PointerMoved", "PointerButton"}
                   THEN <<Head(events).x, Head(events).y>>
                   ELSE pos,
                   Tail(events))

\* ctx.run (renderer.rs:279): the toolkit consumes the raw input and hands its
\* texture delta over; what it retains afterwards
Context_run(ctx, taken, choice) ==
    [ctx EXCEPT
        !.latest_pos = LatestPos(ctx.latest_pos, taken.events),
        !.tex = (ctx.tex \cup { choice.textures_delta.set[i] :
                                   i \in 1..Len(choice.textures_delta.set) })
                \ { choice.textures_delta.free[i] :
                        i \in 1..Len(choice.textures_delta.free) }]

----------------------------------------------------------------------------
(* NotedeckRenderer::render, statement group by statement group            *)

\* f32::round: to the nearest whole point, halves away from zero; NaN and the
\* infinities stay what they are
f32_round(f) ==
    IF f.k # "fin" THEN f
    ELSE IF f.h >= 0 THEN Fin(2 * ((f.h + 1) \div 2))
    ELSE Fin(-(2 * (((-f.h) + 1) \div 2)))

\* the whole part of a finite f32, the fraction cut off towards zero
Trunc(f) == IF f.h >= 0 THEN f.h \div 2 ELSE -((-f.h) \div 2)

\* the conversion keeping the low eight bits of the whole part (two's complement)
as_i8_wrapping(f) ==
    IF f.k # "fin" THEN 0
    ELSE ((Trunc(f) + 128) % 256) - 128

\* `as i8` on an f32: truncating and saturating, NaN becomes 0
as_i8(f) ==
    IF f.k = "nan" THEN 0
    ELSE IF f.k = "inf" THEN (IF f.h > 0 THEN 127 ELSE -128)
    ELSE IF Trunc(f) > 127 THEN 127
    ELSE IF Trunc(f) < -128 THEN -128
    ELSE Trunc(f)

\* renderer.rs:282-287: the inner margin of the frame around the application
inner_margin(sa) ==
    [top |-> as_i8(f32_round(sa.top)), right |-> as_i8(f32_round(sa.right)),
     bottom |-> as_i8(f32_round(sa.bottom)), left |-> as_i8(f32_round(sa.left))]

\* renderer.rs:251-252: device pixels / pixels per point in f32, kept as the
\* fraction n / d (the rounding of the f32 quotient is not modelled)
points(pixels, pixels_per_point) == [n |-> pixels, d |-> pixels_per_point]

\* the screen rect with its size left in device pixels
screen_rect_pixels(cfg, pixels_per_point) ==
    [min |-> [x |-> 0, y |-> 0],
     size |-> [x |-> points(cfg.width, 1), y |-> points(cfg.height, 1)]]

\* renderer.rs:250-254: Rect::from_min_size(Pos2::ZERO, vec2(width_points, height_points))
screen_rect(cfg, pixels_per_point) ==
    [min |-> [x |-> 0, y |-> 0],
     size |-> [x |-> points(cfg.width, pixels_per_point),
               y |-> points(cfg.height, pixels_per_point)]]

\* renderer.rs:255: self.raw_input.screen_rect = Some(rect)
set_screen_rect(ri, cfg, ctx) ==
    [ri EXCEPT !.screen_rect = <<screen_rect(cfg, ctx.pixels_per_point)>>]

\* renderer.rs:324-327
screen_descriptor(cfg, ctx) ==
    [size_in_pixels |-> <<cfg.width, cfg.height>>,
     pixels_per_point |-> ctx.pixels_per_point]

\* renderer.rs:272-275: self.raw_input.events = (converted batch)
convert_input(ri, input_events) ==
    [ri EXCEPT !.events = filter_map_collect(input_events)]

\* the text of the last Paste event of a queue, `none` when it has none
RECURSIVE LastPaste(_, _)
LastPaste(none, events) ==
    IF events = <<>> THEN none
    ELSE LastPaste(IF Head(events).kind = "Paste" THEN Head(events).text ELSE none,
                   Tail(events))

\* the locals with the copied text taken from a pasted text when there is one
run_locals_paste_leak(t, taken, sa, choice) ==
    [t EXCEPT
        !.run_events = taken.events,
        !.screen_rect = taken.screen_rect,
        !.safe_area = sa,
        !.margin = inner_margin(sa),
        !.full_output =
            [platform_output |->
                [cursor_icon |-> choice.report.cursor_icon,
                 ime |-> choice.report.ime,
                 copied_text |-> choice.report.copied_text],
             textures_delta |-> choice.textures_delta],
        !.wants_keyboard = choice.report.wants_keyboard,
        !.ime_rect = choice.report.ime,
        !.copied_text = LastPaste(choice.report.copied_text, taken.events)]

\* the locals with the toolkit's report thrown away when the draw call failed
run_locals_draw_error(t, taken, sa, choice) ==
    [t EXCEPT
        !.run_events = taken.events,
        !.screen_rect = taken.screen_rect,
        !.safe_area = sa,
        !.margin = inner_margin(sa),
        !.full_output =
            [platform_output |->
                [cursor_icon |-> IF choice.draw = "err" THEN "Default"
                                 ELSE choice.report.cursor_icon,
                 ime |-> IF choice.draw = "err" THEN <<>> ELSE choice.report.ime,
                 copied_text |-> IF choice.draw = "err" THEN ""
                                 ELSE choice.report.copied_text],
             textures_delta |-> choice.textures_delta],
        !.wants_keyboard = choice.draw # "err" /\ choice.report.wants_keyboard,
        !.ime_rect = IF choice.draw = "err" THEN <<>> ELSE choice.report.ime,
        !.copied_text = IF choice.draw = "err" THEN "" ELSE choice.report.copied_text]

\* renderer.rs:278-303: the locals of render after the toolkit pass; the Result
\* of chrome.update is dropped (`let _ =`)
run_locals(t, taken, sa, choice) ==
    [t EXCEPT
        !.run_events = taken.events,
        !.screen_rect = taken.screen_rect,
        !.safe_area = sa,
        !.margin = inner_margin(sa),
        !.full_output =
            [platform_output |->
                [cursor_icon |-> choice.report.cursor_icon,
                 ime |-> choice.report.ime,
                 copied_text |-> choice.report.copied_text],
             textures_delta |-> choice.textures_delta],
        !.wants_keyboard = choice.report.wants_keyboard,
        !.ime_rect = choice.report.ime,
        !.copied_text = choice.report.copied_text]

\* the error branch returning what the toolkit reported instead of the default
return_on_error_full(t) ==
    OutputState_with_full_state(
        CursorIcon_from(t.full_output.platform_output.cursor_icon),
        t.wants_keyboard, t.ime_rect, t.copied_text)

\* renderer.rs:308-311: the value returned when get_current_texture fails
return_on_error(t) ==
    OutputState_new("Default")

\* renderer.rs:382-387: the value returned at the end of render
return_full_state(t) ==
    OutputState_with_full_state(
        CursorIcon_from(t.full_output.platform_output.cursor_icon),
        t.wants_keyboard, t.ime_rect, t.copied_text)

\* one GPU step; id is the texture it is about, 0 when it is about none
Op(name, id) == [op |-> name, id |-> id]

\* the frees done with the updates, before anything is submitted
draw_ops_free_early(tdelta) ==
    [i \in 1..Len(tdelta.set) |-> Op("update_texture", tdelta.set[i])]
        \o [i \in 1..Len(tdelta.free) |-> Op("free_texture", tdelta.free[i])]
        \o <<Op("update_buffers", 0), Op("render_pass", 0)>>

\* renderer.rs:331-369: update_texture for every entry of tdelta.set, then
\* update_buffers, then the render pass recorded into the encoder
draw_ops(tdelta) ==
    [i \in 1..Len(tdelta.set) |-> Op("update_texture", tdelta.set[i])]
        \o <<Op("update_buffers", 0), Op("render_pass", 0)>>

\* renderer.rs:332-335: the textures the GPU renderer holds after the updates
update_textures(r, tdelta) ==
    [r EXCEPT !.textures = r.textures \cup { tdelta.set[i] : i \in 1..Len(tdelta.set) }]

\* renderer.rs:372
submit_ops == <<Op("submit", 0)>>

\* the frame presented a second time
present_ops_twice == <<Op("present", 0), Op("present", 0)>>

\* renderer.rs:375
present_ops == <<Op("present", 0)>>

\* renderer.rs:378-380: free_texture for every id of tdelta.free
free_ops(tdelta) ==
    [i \in 1..Len(tdelta.free) |-> Op("free_texture", tdelta.free[i])]

\* renderer.rs:378-380: the textures the GPU renderer holds after the frees
free_textures(r, tdelta) ==
    [r EXCEPT !.textures = r.textures \ { tdelta.free[i] : i \in 1..Len(tdelta.free) }]

\* the renderer fields as they are when a render call is entered
Snapshot ==
    [config |-> config, surface |-> surface, context |-> context,
     raw_input |-> raw_input, egui_renderer |-> egui_renderer, safe_area |-> safe_area]

\* the locals of render before any statement ran
NoLocals ==
    [status |-> "none", input_events |-> <<>>, run_events |-> <<>>,
     safe_area |-> SafeAreaInsets_default,
     margin |-> inner_margin(SafeAreaInsets_default),
     full_output |->
        [platform_output |-> [cursor_icon |-> "Default", ime |-> <<>>, copied_text |-> ""],
         textures_delta |-> [set |-> <<>>, free |-> <<>>]],
     wants_keyboard |-> FALSE, ime_rect |-> <<>>, copied_text |-> "",
     frame |-> "none", encoder |-> "none", acquired |-> 0,
     screen_rect |-> <<>>, screen_descriptor |-> <<>>]

NoOutput ==
    [cursor_icon |-> "none", wants_keyboard |-> FALSE, ime_rect |-> <<>>, copied_text |-> ""]

\* no pass has run in the current call
NoPass ==
    [report |-> [cursor_icon |-> "Default", ime |-> <<>>, copied_text |-> "",
                 wants_keyboard |-> FALSE],
     textures_delta |-> [set |-> <<>>, free |-> <<>>], draw |-> "none"]

HostCall(op, width, height, configure) ==
    [op |-> op, width |-> width, height |-> height, configure |-> configure]

----------------------------------------------------------------------------
(* State after NotedeckRenderer::new (renderer.rs:79-191)                  *)

RendererNew ==
    /\ config = [width |-> NewArgs.width, height |-> NewArgs.height, format |-> tex_format]
    /\ surface = [width |-> NewArgs.width, height |-> NewArgs.height, format |-> tex_format]
    /\ context = [pixels_per_point |-> NewArgs.display_scale, tex |-> {}, latest_pos |-> <<>>]
    /\ raw_input = [events |-> <<>>, screen_rect |-> <<>>]
    /\ egui_renderer = [textures |-> {}]
    /\ safe_area = SafeAreaInsets_default
    /\ display_scale = NewArgs.display_scale
    /\ pc = "Idle"
    /\ tick = [NoLocals EXCEPT !.status = "none"]
    /\ entry = [config |-> [width |-> NewArgs.width, height |-> NewArgs.height,
                             format |-> tex_format],
                surface |-> [width |-> NewArgs.width, height |-> NewArgs.height,
                             format |-> tex_format],
                context |-> [pixels_per_point |-> NewArgs.display_scale, tex |-> {},
                             latest_pos |-> <<>>],
                raw_input |-> [events |-> <<>>, screen_rect |-> <<>>],
                egui_renderer |-> [textures |-> {}],
                safe_area |-> SafeAreaInsets_default]
    /\ gpu_ops = <<>>
    /\ out = NoOutput
    /\ last_call = HostCall("new", NewArgs.width, NewArgs.height, TRUE)
    /\ last_resize = <<NewArgs.width, NewArgs.height>>
    /\ last_safe = SafeAreaInsets_default
    /\ pass = NoPass

\* no event is at the translator
NoTranslation ==
    /\ ev = ScenePhaseChanged(0)
    /\ ev_results = <<>>

\* ios.rs:140: static mut NOTEDECK_IOS: Option<NotedeckIos> = None
IosStatic ==
    /\ NOTEDECK_IOS = <<>>
    /\ ios_pc = "Idle"
    /\ ios_new = <<>>
    /\ ios_live = {}
    /\ ios_created = 0
    /\ ios_dropped = <<>>
    /\ ios_ret = <<>>
    /\ ios_last = "none"

\* clipboard.rs:74-79: IosClipboard::new, both slots None
IosClipboard_new ==
    /\ paste_content = <<>>
    /\ copy_content = <<>>
    /\ clip_ret = <<>>
    /\ clip_log = <<>>

Init ==
    /\ RendererNew
    /\ NoTranslation
    /\ IosStatic
    /\ IosClipboard_new

----------------------------------------------------------------------------
(* Host calls.  The host owns the renderer through one handle and calls it *)
(* from one thread: a call starts only when no call is in flight.          *)

\* a call entered while another call on the same renderer is in flight
shared_borrow(p) == TRUE

\* ffi.rs:92-96, renderer.rs:194, 227, 245: resize, set_safe_area and render take
\* `&mut self`, and render is one synchronous call: a call is entered only when
\* no call on the renderer is in flight
exclusive_borrow(p) == p = "Idle"

SetSafeArea(a) ==
    /\ exclusive_borrow(pc)
    /\ entry' = Snapshot
    /\ safe_area' = set_safe_area(a.top, a.right, a.bottom, a.left)
    /\ last_call' = HostCall("set_safe_area", 0, 0, FALSE)
    /\ tick' = NoLocals
    /\ gpu_ops' = <<>>
    /\ pass' = NoPass
    /\ out' = NoOutput
    /\ last_safe' = a
    /\ UNCHANGED <<config, surface, context, raw_input, egui_renderer, display_scale,
                   pc, last_resize>>
    /\ UNCHANGED aside

Resize(width, height) ==
    /\ exclusive_borrow(pc)
    /\ entry' = Snapshot
    /\ LET r == resize(config, width, height) IN
        /\ config' = r.config
        /\ surface' = IF r.configure THEN r.config ELSE surface
        /\ last_call' = HostCall("resize", width, height, r.configure)
    /\ last_resize' = IF width # 0 /\ height # 0 THEN <<width, height>> ELSE last_resize
    /\ tick' = NoLocals
    /\ gpu_ops' = <<>>
    /\ pass' = NoPass
    /\ out' = NoOutput
    /\ UNCHANGED <<context, raw_input, egui_renderer, safe_area, display_scale, pc,
                   last_safe>>
    /\ UNCHANGED aside

\* renderer.rs:245-275: entry, screen geometry, conversion of the batch
RenderBegin(input_events) ==
    /\ exclusive_borrow(pc)
    /\ entry' = Snapshot
    /\ raw_input' = convert_input(set_screen_rect(raw_input, config, context), input_events)
    /\ tick' = [NoLocals EXCEPT !.status = "running", !.input_events = input_events]
    /\ gpu_ops' = <<>>
    /\ pass' = NoPass
    /\ last_call' = HostCall("render", 0, 0, FALSE)
    /\ out' = NoOutput
    /\ pc' = "run"
    /\ UNCHANGED <<config, surface, context, egui_renderer, safe_area, display_scale,
                   last_resize, last_safe>>
    /\ UNCHANGED aside

\* renderer.rs:277-303: the toolkit pass over the taken raw input, extraction of
\* the output state, tessellation
RunFrame(choice) ==
    /\ pc = "run"
    /\ LET tk == RawInput_take(raw_input) IN
        /\ raw_input' = tk.rest
        /\ context' = Context_run(context, tk.taken, choice)
        /\ tick' = run_locals(tick, tk.taken, safe_area, choice)
    /\ pass' = choice
    /\ pc' = "acquire"
    /\ UNCHANGED <<config, surface, egui_renderer, safe_area, display_scale,
                   entry, gpu_ops, out, last_call, last_resize, last_safe>>
    /\ UNCHANGED aside

\* renderer.rs:306-312, Err branch: log and return
AcquireFail ==
    /\ pc = "acquire"
    /\ out' = return_on_error(tick)
    /\ tick' = [tick EXCEPT !.status = "failed", !.input_events = <<>>, !.run_events = <<>>]
    /\ pc' = "Idle"
    /\ UNCHANGED <<config, surface, context, raw_input, egui_renderer, safe_area,
                   display_scale, entry, gpu_ops, last_call, last_resize, last_safe, pass>>
    /\ UNCHANGED aside

\* renderer.rs:306-369, Ok branch: the frame, its view, the encoder, the texture
\* updates, the buffers and the render pass
AcquireAndDraw ==
    /\ pc = "acquire"
    /\ tick' = [tick EXCEPT !.frame = "acquired", !.encoder = "recording",
                             !.acquired = tick.acquired + 1,
                             !.screen_descriptor = <<screen_descriptor(config, context)>>,
                             !.input_events = <<>>, !.run_events = <<>>]
    /\ egui_renderer' = update_textures(egui_renderer, tick.full_output.textures_delta)
    /\ gpu_ops' = gpu_ops \o draw_ops(tick.full_output.textures_delta)
    /\ pc' = "submit"
    /\ UNCHANGED <<config, surface, context, raw_input, safe_area, display_scale,
                   entry, out, last_call, last_resize, last_safe, pass>>
    /\ UNCHANGED aside

\* renderer.rs:372
Submit ==
    /\ pc = "submit"
    /\ tick' = [tick EXCEPT !.encoder = "submitted"]
    /\ gpu_ops' = gpu_ops \o submit_ops
    /\ pc' = "present"
    /\ UNCHANGED <<config, surface, context, raw_input, egui_renderer, safe_area,
                   display_scale, entry, out, last_call, last_resize, last_safe, pass>>
    /\ UNCHANGED aside

\* a present that never comes back: the tick stays where it is
Present_blocked ==
    /\ pc = "present"
    /\ UNCHANGED vars

\* renderer.rs:375
Present ==
    /\ pc = "present"
    /\ tick' = [tick EXCEPT !.frame = "presented"]
    /\ gpu_ops' = gpu_ops \o present_ops
    /\ pc' = "free"
    /\ UNCHANGED <<config, surface, context, raw_input, egui_renderer, safe_area,
                   display_scale, entry, out, last_call, last_resize, last_safe, pass>>
    /\ UNCHANGED aside

\* renderer.rs:377-387: the frees, then the returned OutputState
FreeAndReturn ==
    /\ pc = "free"
    /\ egui_renderer' = free_textures(egui_renderer, tick.full_output.textures_delta)
    /\ gpu_ops' = gpu_ops \o free_ops(tick.full_output.textures_delta)
    /\ out' = return_full_state(tick)
    /\ tick' = [tick EXCEPT !.status = "presented"]
    /\ pc' = "Idle"
    /\ UNCHANGED <<config, surface, context, raw_input, safe_area, display_scale,
                   entry, last_call, last_resize, last_safe, pass>>
    /\ UNCHANGED aside

Next ==
    \/ \E a \in SafeAreaArgs : SetSafeArea(a)
    \/ \E wh \in ResizeArgs : Resize(wh[1], wh[2])
    \/ \E input_events \in Batches : RenderBegin(input_events)
    \/ \E choice \in PassChoices(context.tex) : RunFrame(choice)
    \/ AcquireFail
    \/ AcquireAndDraw
    \/ Submit
    \/ Present
    \/ FreeAndReturn

Spec == Init /\ [][Next]_vars

----------------------------------------------------------------------------
(* The render call under its scheduling: render is one synchronous function *)
(* (renderer.rs:245-388), so once it is entered its statements run one      *)
(* after the other until it returns; the host calls between ticks as above. *)

\* the batches of the ticks followed to their return
TickBatches ==
    { <<>>, <<PointerMoved(20, 10)>>, <<Paste("a"), KeyboardVisibility(TRUE)>> }

\* renderer.rs:277-387: the next statement group of the render call in flight
TickStep ==
    \/ \E choice \in PassChoices(context.tex) : RunFrame(choice)
    \/ AcquireFail
    \/ AcquireAndDraw
    \/ Submit
    \/ Present
    \/ FreeAndReturn

NextTick ==
    \/ \E a \in SafeAreaArgs : SetSafeArea(a)
    \/ \E wh \in ResizeArgs : Resize(wh[1], wh[2])
    \/ \E input_events \in TickBatches : RenderBegin(input_events)
    \/ TickStep

SpecTick == Init /\ [][NextTick]_vars /\ WF_vars(TickStep)

----------------------------------------------------------------------------
(* The Input Translator on its own: events arrive at the FFI boundary and  *)
(* InputEvent::into_egui_event is applied to them                          *)

\* coordinates and deltas of pointer and wheel events
Coords == {10, 20}

\* scene phases the host sends (input.rs:124: u8), the documented 0..2 and others
Phases == {0, 1, 2, 3, 255}

\* virtual key codes the host sends (input.rs:140: u8), the mapped 0..7 and others
KeyCodes == 0..9 \cup {128, 255}

\* texts of text, preedit and paste events
Texts == {"", "a"}

\* input.rs:104-154: every event the FFI constructors can build from those
TranslatorEvents ==
    { PointerMoved(x, y) : x \in Coords, y \in Coords }
    \cup { MouseWheel(x, y) : x \in Coords, y \in Coords }
    \cup { LeftMouseDown(x, 10, p) : x \in Coords, p \in BOOLEAN }
    \cup { RightMouseDown(x, 10, p) : x \in Coords, p \in BOOLEAN }
    \cup { WindowFocused(f) : f \in BOOLEAN }
    \cup { ScenePhaseChanged(ph) : ph \in Phases }
    \cup { TextCommit(t) : t \in Texts }
    \cup { ImePreedit(t) : t \in Texts }
    \cup { KeyboardVisibility(v) : v \in BOOLEAN }
    \cup { VirtualKey(c, p) : c \in KeyCodes, p \in BOOLEAN }
    \cup { CopyEvent, CutEvent }
    \cup { Paste(t) : t \in Texts }

\* the renderer is constructed and idle, one event is at the boundary
InitTranslate ==
    /\ RendererNew
    /\ IosStatic
    /\ IosClipboard_new
    /\ ev \in TranslatorEvents
    /\ ev_results = <<>>

\* input.rs:35: into_egui_event on the event (the model keeps the event to
\* translate it again; the code consumes `self`)
Translate ==
    /\ Len(ev_results) < MaxTranslations
    /\ ev_results' = Append(ev_results, into_egui_event(ev))
    /\ UNCHANGED <<ev, rvars, ivars, cvars>>

\* input.rs:104-154: the host builds the next event
NextEvent(e) ==
    /\ ev' = e
    /\ ev_results' = <<>>
    /\ UNCHANGED <<rvars, ivars, cvars>>

NextTranslate ==
    \/ Translate
    \/ \E e \in TranslatorEvents : NextEvent(e)

SpecTranslate == InitTranslate /\ [][NextTranslate]_vars

----------------------------------------------------------------------------
(* The process-wide NotedeckIos of notedeck_chrome (ios.rs:139-175).  The   *)
(* three functions are called from the main thread, one at a time.          *)

\* arguments the host passes to notedeck_ios_init: the data path ("" for a null
\* pointer, ios.rs:151-157) and the scale factor
IosInitArgs == { <<"", 2>>, <<"", 3>>, <<"/data", 2>>, <<"/data", 3>> }

\* ios.rs:29-79: the instance NotedeckIos::new builds; id tells instances apart
NotedeckIos_new(id, data_path, scale_factor) ==
    [id |-> id, data_path |-> data_path, pixels_per_point |-> scale_factor]

\* what dropping the value held in `slot` adds to the drops, in call `by`
drop_in(slot, by) ==
    [i \in 1..Len(slot) |-> [id |-> slot[i].id, by |-> by]]

\* ios.rs:147-159, right-hand side: the path is read and NotedeckIos::new runs
\* while NOTEDECK_IOS still holds what it held
notedeck_ios_init_new(data_path, scale_factor) ==
    /\ ios_pc = "Idle"
    /\ ios_created < MaxInits
    /\ ios_new' = <<NotedeckIos_new(ios_created + 1, data_path, scale_factor)>>
    /\ ios_live' = ios_live \cup {ios_created + 1}
    /\ ios_created' = ios_created + 1
    /\ ios_pc' = "assign"
    /\ ios_ret' = <<>>
    /\ UNCHANGED <<NOTEDECK_IOS, ios_dropped, ios_last>>
    /\ UNCHANGED <<rvars, tvars, cvars>>

\* ios.rs:159, the assignment: the new value is stored, the old one is dropped
notedeck_ios_init_assign ==
    /\ ios_pc = "assign"
    /\ NOTEDECK_IOS' = ios_new
    /\ ios_dropped' = ios_dropped \o drop_in(NOTEDECK_IOS, "init")
    /\ ios_live' = ios_live \ { NOTEDECK_IOS[i].id : i \in 1..Len(NOTEDECK_IOS) }
    /\ ios_new' = <<>>
    /\ ios_pc' = "Idle"
    /\ ios_last' = "init"
    /\ UNCHANGED <<ios_created, ios_ret>>
    /\ UNCHANGED <<rvars, tvars, cvars>>

\* the test turned around: true for None
Option_is_none(slot) == slot = <<>>

\* ios.rs:165: Option::is_some
Option_is_some(slot) == slot # <<>>

\* ios.rs:164-166
notedeck_ios_is_initialized ==
    /\ ios_pc = "Idle"
    /\ ios_ret' = <<Option_is_some(NOTEDECK_IOS)>>
    /\ UNCHANGED <<NOTEDECK_IOS, ios_pc, ios_new, ios_live, ios_created, ios_dropped,
                   ios_last>>
    /\ UNCHANGED <<rvars, tvars, cvars>>

\* ios.rs:173-175: NOTEDECK_IOS = None, the old value is dropped
notedeck_ios_cleanup ==
    /\ ios_pc = "Idle"
    /\ NOTEDECK_IOS' = <<>>
    /\ ios_dropped' = ios_dropped \o drop_in(NOTEDECK_IOS, "cleanup")
    /\ ios_live' = ios_live \ { NOTEDECK_IOS[i].id : i \in 1..Len(NOTEDECK_IOS) }
    /\ ios_ret' = <<>>
    /\ ios_last' = "cleanup"
    /\ UNCHANGED <<ios_pc, ios_new, ios_created>>
    /\ UNCHANGED <<rvars, tvars, cvars>>

NextIos ==
    \/ \E a \in IosInitArgs : notedeck_ios_init_new(a[1], a[2])
    \/ notedeck_ios_init_assign
    \/ notedeck_ios_is_initialized
    \/ notedeck_ios_cleanup

SpecIos == Init /\ [][NextIos]_vars

----------------------------------------------------------------------------
(* IosClipboard (clipboard.rs:66-118).  Each method locks one mutex for its *)
(* whole body, so the calls on a slot happen one after the other.  Nothing  *)
(* can panic while a lock is held, so lock() is never Err(poisoned).        *)

\* the texts written to the clipboard
ClipTexts == {"a", "b"}

\* one call on the clipboard, as kept in clip_log
ClipOp(op, text) == [op |-> op, text |-> text]

\* reading the slot without emptying it
Option_peek(slot) == [value |-> slot, rest |-> slot]

\* Option::take (clipboard.rs:91, 107): the value is moved out, None stays
Option_take(slot) == [value |-> slot, rest |-> <<>>]

\* clipboard.rs:82-86
receive_paste(text) ==
    /\ Len(clip_log) < MaxClipOps
    /\ paste_content' = <<text>>
    /\ clip_ret' = <<>>
    /\ clip_log' = Append(clip_log, ClipOp("receive_paste", text))
    /\ UNCHANGED copy_content
    /\ UNCHANGED <<rvars, tvars, ivars>>

\* clipboard.rs:89-95
take_copy_content ==
    /\ Len(clip_log) < MaxClipOps
    /\ copy_content' = Option_take(copy_content).rest
    /\ clip_ret' = Option_take(copy_content).value
    /\ clip_log' = Append(clip_log, ClipOp("take_copy_content", ""))
    /\ UNCHANGED paste_content
    /\ UNCHANGED <<rvars, tvars, ivars>>

\* clipboard.rs:105-111: Clipboard::get
Clipboard_get ==
    /\ Len(clip_log) < MaxClipOps
    /\ paste_content' = Option_take(paste_content).rest
    /\ clip_ret' = Option_take(paste_content).value
    /\ clip_log' = Append(clip_log, ClipOp("get", ""))
    /\ UNCHANGED copy_content
    /\ UNCHANGED <<rvars, tvars, ivars>>

\* clipboard.rs:113-117: Clipboard::set_text
Clipboard_set_text(text) ==
    /\ Len(clip_log) < MaxClipOps
    /\ copy_content' = <<text>>
    /\ clip_ret' = <<>>
    /\ clip_log' = Append(clip_log, ClipOp("set_text", text))
    /\ UNCHANGED paste_content
    /\ UNCHANGED <<rvars, tvars, ivars>>

NextClipboard ==
    \/ \E text \in ClipTexts : receive_paste(text)
    \/ take_copy_content
    \/ Clipboard_get
    \/ \E text \in ClipTexts : Clipboard_set_text(text)

SpecClipboard == Init /\ [][NextClipboard]_vars

----------------------------------------------------------------------------
(* Properties                                                              *)

\* the render call last made has returned through the error branch
FailedTick == pc = "Idle" /\ tick.status = "failed"

\* the render call last made has returned at the end of render
PresentedTick == pc = "Idle" /\ tick.status = "presented"

OpsNamed(names) == { i \in 1..Len(gpu_ops) : gpu_ops[i].op \in names }

\* C1: a render tick whose frame acquisition failed returned the degraded default
\* OutputState (cursor Default, no keyboard want, no IME rectangle, no copied
\* text), and no submission and no present happened in it.
C1_FailedTickReturnsDefault ==
    FailedTick =>
        /\ out = [cursor_icon |-> "Default", wants_keyboard |-> FALSE,
                  ime_rect |-> <<>>, copied_text |-> ""]
        /\ OpsNamed({"submit", "present"}) = {}

\* a failed tick in which the toolkit had asked for the keyboard and an IME rectangle
C1_Witness ==
    /\ FailedTick
    /\ tick.wants_keyboard
    /\ tick.ime_rect # <<>>
    /\ tick.full_output.platform_output.cursor_icon = "Text"

\* C2: after a render tick whose frame acquisition failed, the toolkit's retained
\* state, the raw input, the GPU renderer's textures, the surface configuration
\* and the safe-area insets are what they were when the tick was entered.
C2_FailedTickRetainsState ==
    FailedTick =>
        /\ context = entry.context
        /\ raw_input = entry.raw_input
        /\ egui_renderer = entry.egui_renderer
        /\ config = entry.config
        /\ surface = entry.surface
        /\ safe_area = entry.safe_area

\* the translations of the events of a batch that translate, by position
MappedOnly(input_events) ==
    SelectSeq(input_events, LAMBDA e : Len(into_egui_event(e)) = 1)

ExpectedQueue(input_events) ==
    [k \in 1..Len(MappedOnly(input_events)) |->
        into_egui_event(MappedOnly(input_events)[k])[1]]

\* C3: the event queue handed to the toolkit in a render tick is exactly the
\* translations of the batch's events that translate, in arrival order.
C3_QueueIsTranslationInOrder ==
    pc = "acquire" => tick.run_events = ExpectedQueue(tick.input_events)

\* the batch [button-down at (10,10), pointer-move to (20,10)] reached the toolkit
C3_Witness ==
    /\ pc = "acquire"
    /\ tick.input_events = <<LeftMouseDown(10, 10, TRUE), PointerMoved(20, 10)>>
    /\ Len(tick.run_events) = 2
    /\ tick.run_events[1].kind = "PointerButton"
    /\ tick.run_events[2].kind = "PointerMoved"

\* C4: the raw-input queue is empty whenever no toolkit pass is pending, and
\* every event a pass receives is the translation of an event of the batch
\* passed to the same tick.
C4_NoStaleEvents ==
    /\ pc # "run" => raw_input.events = <<>>
    /\ pc = "acquire" =>
          /\ Len(tick.run_events) <= Len(tick.input_events)
          /\ \A i \in 1..Len(tick.run_events) :
                \E j \in 1..Len(tick.input_events) :
                    into_egui_event(tick.input_events[j]) = <<tick.run_events[i]>>

\* a tick whose pass received nothing, after a tick that had delivered pointer events
C4_Witness ==
    /\ pc = "acquire"
    /\ entry.context.latest_pos # <<>>
    /\ tick.input_events = <<KeyboardVisibility(TRUE)>>
    /\ tick.run_events = <<>>

\* C5: resize with a zero width or a zero height leaves the surface
\* configuration as it was and does not configure the surface.
C5_ZeroResizeIsNoOp ==
    (last_call.op = "resize" /\ (last_call.width = 0 \/ last_call.height = 0)) =>
        /\ config = entry.config
        /\ surface = entry.surface
        /\ ~last_call.configure

\* resize(0, 600) on a renderer configured 1024 x 768
C5_Witness ==
    /\ last_call = HostCall("resize", 0, 600, FALSE)
    /\ config.width = 1024
    /\ config.height = 768

\* C6: the configured width and height are both those of the most recent resize
\* call with two nonzero dimensions (of construction when there was none), for
\* the stored configuration and for the surface alike.
C6_ConfigFromOneAcceptedResize ==
    /\ <<config.width, config.height>> = last_resize
    /\ <<surface.width, surface.height>> = last_resize
    /\ config.format = tex_format

\* resize(800, 600) was accepted, and a later resize(800, 0) changed nothing
C6_Witness ==
    /\ last_call = HostCall("resize", 800, 0, FALSE)
    /\ config.width = 800
    /\ config.height = 600
    /\ last_resize = <<800, 600>>

\* the place of a GPU step in the order the claim states
Rank(op) ==
    CASE op = "update_texture" -> 1
      [] op = "update_buffers" -> 2
      [] op = "render_pass" -> 3
      [] op = "submit" -> 4
      [] op = "present" -> 5
      [] op = "free_texture" -> 6

IdsOf(list) == { list[i] : i \in 1..Len(list) }

\* C7: in a render tick that acquired a frame the GPU steps are, in this order:
\* the texture updates of the tick's output, one submission, the present, the
\* texture frees of the tick's output; nothing is freed before submit and present.
C7_GpuStepOrder ==
    /\ \A i, j \in 1..Len(gpu_ops) :
          i < j => Rank(gpu_ops[i].op) <= Rank(gpu_ops[j].op)
    /\ Cardinality(OpsNamed({"submit"})) <= 1
    /\ Cardinality(OpsNamed({"present"})) <= 1
    /\ OpsNamed({"free_texture"}) # {} =>
          (OpsNamed({"submit"}) # {} /\ OpsNamed({"present"}) # {})
    /\ PresentedTick =>
          /\ Cardinality(OpsNamed({"submit"})) = 1
          /\ Cardinality(OpsNamed({"present"})) = 1
          /\ { gpu_ops[i].id : i \in OpsNamed({"update_texture"}) }
                = IdsOf(tick.full_output.textures_delta.set)
          /\ { gpu_ops[i].id : i \in OpsNamed({"free_texture"}) }
                = IdsOf(tick.full_output.textures_delta.free)

\* a finished tick whose output listed a texture to upload and one to free
C7_Witness ==
    /\ PresentedTick
    /\ tick.full_output.textures_delta.set # <<>>
    /\ tick.full_output.textures_delta.free # <<>>
    /\ Len(gpu_ops) = 6

\* C8: the layout margin applied in a render tick has no negative component.
C8_MarginNeverNegative ==
    /\ tick.margin.top >= 0
    /\ tick.margin.right >= 0
    /\ tick.margin.bottom >= 0
    /\ tick.margin.left >= 0

\* the batches that differ from a batch in the text of its Paste events only
PasteVariants(input_events) ==
    { b \in [1..Len(input_events) -> TickEvents \cup { Paste(t) : t \in PasteTexts }] :
        \A i \in 1..Len(input_events) :
            IF input_events[i].type = "Paste"
            THEN b[i].type = "Paste"
            ELSE b[i] = input_events[i] }

\* what the toolkit decided in the pass of the tick in flight
PassChoice ==
    [report |->
        [cursor_icon |-> tick.full_output.platform_output.cursor_icon,
         ime |-> tick.full_output.platform_output.ime,
         copied_text |-> tick.full_output.platform_output.copied_text,
         wants_keyboard |-> tick.wants_keyboard],
     textures_delta |-> tick.full_output.textures_delta,
     draw |-> pass.draw]

\* the locals of the same tick, had the batch been b, the toolkit deciding the same
TwinLocals(b) ==
    run_locals([NoLocals EXCEPT !.status = "running", !.input_events = b],
               RawInput_take(convert_input(
                   set_screen_rect(entry.raw_input, entry.config, entry.context), b)).taken,
               safe_area, PassChoice)

\* C9: the clipboard-copy string a render tick returns, on either way out, is
\* the same for every batch that differs only in the text of its Paste events,
\* the application copying the same text.
C9_CopyIndependentOfPaste ==
    pc = "acquire" =>
        \A b \in PasteVariants(tick.input_events) :
            /\ return_full_state(TwinLocals(b)).copied_text
                  = return_full_state(tick).copied_text
            /\ return_on_error(TwinLocals(b)).copied_text
                  = return_on_error(tick).copied_text

\* a tick whose batch pastes "a" twice while the application copies "a"
C9_Witness ==
    /\ pc = "acquire"
    /\ tick.input_events = <<Paste("a"), Paste("a")>>
    /\ tick.full_output.platform_output.copied_text = "a"
    /\ Cardinality(PasteVariants(tick.input_events)) = 4

\* C10: the clipboard-copy string a render tick returned is the text the toolkit
\* reported as copied in that tick (empty when it reported none).
C10_CopyReturnedExactly ==
    (pc = "Idle" /\ tick.status \in {"failed", "presented"}) =>
        out.copied_text = tick.full_output.platform_output.copied_text

\* C11: into_egui_event is total (a result of at most one toolkit event for
\* every event), gives no event for the lifecycle and keyboard-visibility
\* variants, and gives the same result when the same event is translated again
EguiKinds ==
    {"PointerMoved", "MouseWheel", "PointerButton", "WindowFocused", "Text",
     "Ime.Preedit", "Key", "Copy", "Cut", "Paste"}

C11_TranslatorTotalAndStable ==
    \A i \in 1..Len(ev_results) :
        /\ Len(ev_results[i]) <= 1
        /\ \A k \in 1..Len(ev_results[i]) : ev_results[i][k].kind \in EguiKinds
        /\ ev.type \in {"ScenePhaseChanged", "KeyboardVisibility"}
                => ev_results[i] = <<>>
        /\ ev_results[i] = ev_results[1]

C11_Witness ==
    /\ ev = ScenePhaseChanged(2)
    /\ ev_results = << <<>>, <<>> >>

\* C12: a virtual key outside 0..7 gives no event; inside 0..7 it gives one key
\* event whose key is Backspace, Enter, Tab, Escape, ArrowUp, ArrowDown,
\* ArrowLeft, ArrowRight by code (eight distinct keys), whose pressed flag is
\* the event's, with repeat false and no modifiers
KeyTable ==
    <<"Backspace", "Enter", "Tab", "Escape", "ArrowUp", "ArrowDown", "ArrowLeft",
      "ArrowRight">>

C12_VirtualKeyTable ==
    /\ \A a, b \in 0..7 : a # b => VirtualKeyName(a) # VirtualKeyName(b)
    /\ ev.type = "VirtualKey" =>
        \A i \in 1..Len(ev_results) :
            IF ev.code \in 0..7
            THEN /\ Len(ev_results[i]) = 1
                 /\ ev_results[i][1].kind = "Key"
                 /\ ev_results[i][1].button = KeyTable[ev.code + 1]
                 /\ ev_results[i][1].pressed = ev.pressed
                 /\ ev_results[i][1].repeat = FALSE
                 /\ ev_results[i][1].modifiers = "NONE"
            ELSE ev_results[i] = <<>>

C12_Witness ==
    /\ ev = VirtualKey(8, TRUE)
    /\ ev_results = << <<>> >>

\* C13: the stored insets are the arguments of the most recent set_safe_area
\* call, all four fields at once (all 0.0 when there was no call); the insets a
\* render tick has read are those; a resize or render call leaves the stored
\* insets as they were when it was entered
C13_InsetsFromLastSetSafeArea ==
    /\ safe_area = last_safe
    /\ pc \notin {"Idle", "run"} => tick.safe_area = last_safe
    /\ tick.status \in {"failed", "presented"} => tick.safe_area = last_safe
    /\ last_call.op \in {"resize", "render"} => safe_area = entry.safe_area

C13_Witness ==
    /\ last_call.op = "render"
    /\ pc = "acquire"
    /\ last_safe = SafeAreaInsets(Pt(47), Pt(0), Pt(34), Pt(0))
    /\ tick.safe_area = last_safe
    /\ last_resize = <<1024, 768>>

\* C14: the stored insets have all four fields finite and >= 0
C14_InsetsFiniteNonNegative ==
    \A f \in {"top", "right", "bottom", "left"} :
        /\ safe_area[f].k = "fin"
        /\ safe_area[f].h >= 0

TickExit ==
    \/ /\ pc = "acquire"
       /\ tick'.status = "failed"
       /\ out' = OutputState_new("Default")
    \/ /\ pc = "free"
       /\ tick'.status = "presented"
       /\ tick'.frame = "presented"
       /\ OpsNamed({"present"}) # {}
       /\ out' # NoOutput

\* C16: every render tick that is in flight comes back to Idle with an
\* OutputState, and a tick leaves the in-flight states only through one of the
\* two exits
C16_TickReturns ==
    /\ (pc # "Idle") ~> (pc = "Idle" /\ tick.status \in {"failed", "presented"}
                                     /\ out # NoOutput)
    /\ [][(pc # "Idle" /\ pc' = "Idle") => TickExit]_vars

C16_Witness ==
    /\ pc = "Idle"
    /\ tick.status = "presented"
    /\ out # NoOutput
    /\ OpsNamed({"free_texture"}) # {}

\* the locals of the tick in flight, had the application's draw call returned u,
\* the toolkit deciding the same
DrawTwin(u) ==
    run_locals([NoLocals EXCEPT !.status = "running", !.input_events = tick.input_events],
               RawInput_take(convert_input(
                   set_screen_rect(entry.raw_input, entry.config, entry.context),
                   tick.input_events)).taken,
               safe_area, [pass EXCEPT !.draw = u])

\* C17: a tick whose draw call returned an error has, after the toolkit pass,
\* the locals of the same tick with a successful draw call; it goes on through
\* render pass, submit and present like any tick, and the OutputState it
\* returns after present is the one built from the toolkit's platform output
C17_DrawErrorSwallowed ==
    pass.draw = "err" =>
        /\ pc = "acquire" => tick = DrawTwin("ok")
        /\ pc = "submit" => OpsNamed({"render_pass"}) # {}
        /\ pc = "present" => OpsNamed({"submit"}) # {}
        /\ pc = "free" => OpsNamed({"present"}) # {}
        /\ tick.status = "presented" =>
            /\ OpsNamed({"submit"}) # {} /\ OpsNamed({"present"}) # {}
            /\ out = OutputState_with_full_state(
                        CursorIcon_from(pass.report.cursor_icon),
                        pass.report.wants_keyboard,
                        pass.report.ime,
                        pass.report.copied_text)

\* a tick with a failed draw call that presented and returned the copied text
C17_Witness ==
    /\ pass.draw = "err"
    /\ tick.status = "presented"
    /\ pc = "Idle"
    /\ out.copied_text = "a"

\* C18: over the init and cleanup calls at most one NotedeckIos instance is live
\* at any time (an init call constructs none while one is live), and every
\* instance that was dropped was dropped in a cleanup call
C18_CreatedOnceDestroyedOnce ==
    /\ Cardinality(ios_live) <= 1
    /\ \A i \in 1..Len(ios_dropped) : ios_dropped[i].by = "cleanup"

\* C19: a tick acquires at most one frame; a frame that was acquired is
\* presented once, in that tick, after the one submission of the tick's encoder;
\* when no call is in flight there is no frame acquired and not presented and no
\* encoder created and not submitted
C19_OneFramePerTick ==
    /\ tick.acquired <= 1
    /\ (tick.frame # "none") = (tick.acquired = 1)
    /\ (tick.encoder # "none") = (tick.acquired = 1)
    /\ Cardinality(OpsNamed({"present"})) = IF tick.frame = "presented" THEN 1 ELSE 0
    /\ Cardinality(OpsNamed({"submit"})) = IF tick.encoder = "submitted" THEN 1 ELSE 0
    /\ \A i \in OpsNamed({"present"}) : \E j \in OpsNamed({"submit"}) : j < i
    /\ pc = "Idle" =>
        /\ tick.frame \in {"none", "presented"}
        /\ tick.encoder \in {"none", "submitted"}
    /\ tick.status = "failed" => tick.frame = "none" /\ tick.encoder = "none"
    /\ tick.status = "presented" => tick.frame = "presented" /\ tick.encoder = "submitted"

C19_Witness ==
    /\ pc = "Idle"
    /\ tick.status = "presented"
    /\ tick.acquired = 1
    /\ Cardinality(OpsNamed({"present"})) = 1
    /\ Cardinality(OpsNamed({"submit"})) = 1

\* x is the quotient pixels / pixels_per_point
IsPoints(x, pixels, pixels_per_point) ==
    /\ x.d # 0
    /\ x.n * pixels_per_point = pixels * x.d

\* r is the rect at the origin whose size is cfg's size in points
IsScreenOf(r, cfg, pixels_per_point) ==
    /\ r.min = [x |-> 0, y |-> 0]
    /\ IsPoints(r.size.x, cfg.width, pixels_per_point)
    /\ IsPoints(r.size.y, cfg.height, pixels_per_point)

\* C20: the screen rect a tick hands to the toolkit has its origin at (0,0) and
\* the size of the surface configuration at the tick's entry divided by the
\* pixel scale, that configuration being the one of the last accepted resize;
\* the screen descriptor of the tick's drawing has the pixel size of the same
\* configuration
C20_ScreenGeometryFromConfig ==
    /\ pc = "run" =>
        /\ Len(raw_input.screen_rect) = 1
        /\ IsScreenOf(raw_input.screen_rect[1], entry.config, display_scale)
    /\ (pc \notin {"Idle", "run"} \/ tick.status \in {"failed", "presented"}) =>
        /\ Len(tick.screen_rect) = 1
        /\ IsScreenOf(tick.screen_rect[1], entry.config, display_scale)
        /\ IsScreenOf(tick.screen_rect[1],
                      [width |-> last_resize[1], height |-> last_resize[2]],
                      display_scale)
    /\ tick.frame # "none" =>
        /\ Len(tick.screen_descriptor) = 1
        /\ tick.screen_descriptor[1].size_in_pixels
              = <<entry.config.width, entry.config.height>>
        /\ tick.screen_descriptor[1].size_in_pixels = last_resize
        /\ tick.screen_descriptor[1].pixels_per_point = display_scale

\* a tick right after the accepted resize to 800 x 600 at scale 3
C20_Witness ==
    /\ pc = "submit"
    /\ last_call.op = "render"
    /\ last_resize = <<800, 600>>
    /\ tick.screen_rect[1].size = [x |-> points(800, 3), y |-> points(600, 3)]
    /\ tick.screen_descriptor[1].size_in_pixels = <<800, 600>>

\* n clamped to the range of an 8-bit signed margin
ClampI8(n) == IF n > 127 THEN 127 ELSE IF n < -128 THEN -128 ELSE n

\* m is the margin of the inset f: a whole point nearest to f, clamped; the
\* ends of the range for the infinities; a NaN inset has no nearest whole point
\* and only has to give a margin of the range
IsMarginOf(m, f) ==
    /\ m \in -128..127
    /\ f.k = "fin" =>
        \E n \in ((f.h \div 2) - 1)..((f.h \div 2) + 1) :
            /\ 2 * n - f.h \in -1..1
            /\ m = ClampI8(n)
    /\ f.k = "inf" => m = IF f.h > 0 THEN 127 ELSE -128

\* C21: the margin a render tick applies on each side is the stored inset of
\* that side rounded to a nearest whole point and clamped to -128..127, never
\* wrapped; an inset above 127 gives 127
C21_MarginRoundedAndSaturated ==
    (pc \notin {"Idle", "run"} \/ tick.status \in {"failed", "presented"}) =>
        \A side \in {"top", "right", "bottom", "left"} :
            /\ IsMarginOf(tick.margin[side], last_safe[side])
            /\ (last_safe[side].k = "fin" /\ last_safe[side].h > 2 * 127)
                    => tick.margin[side] = 127

\* a tick under insets of -200, -0.5, 127.5 and +Inf points
C21_Witness ==
    /\ pc = "acquire"
    /\ last_safe = SafeAreaInsets(Pt(-200), Fin(-1), Fin(255), PosInf)
    /\ tick.margin = [top |-> -128, right |-> -1, bottom |-> 127, left |-> 127]

\* what a cleanup call on an uninitialized NOTEDECK_IOS and what an
\* is_initialized call leave as they were
CleanupOfNone ==
    (ios_pc = "Idle" /\ ios_pc' = "Idle" /\ ios_ret' = <<>> /\ NOTEDECK_IOS = <<>>)
        => (NOTEDECK_IOS' = <<>> /\ UNCHANGED <<ios_live, ios_dropped, ios_created>>)

QueryChangesNothing ==
    (ios_pc = "Idle" /\ ios_pc' = "Idle" /\ ios_ret' # <<>>)
        => UNCHANGED <<NOTEDECK_IOS, ios_live, ios_dropped, ios_created, ios_last>>

\* C22: notedeck_ios_is_initialized returns true exactly when the last completed
\* call of init and cleanup was an init; between calls NOTEDECK_IOS holds an
\* instance exactly then; a cleanup of an uninitialized NOTEDECK_IOS leaves it
\* uninitialized and drops nothing; is_initialized changes nothing
C22_InitializedIffLastWasInit ==
    /\ [](ios_ret # <<>> => ios_ret[1] = (ios_last = "init"))
    /\ [](ios_pc = "Idle" => (NOTEDECK_IOS # <<>>) = (ios_last = "init"))
    /\ [][CleanupOfNone /\ QueryChangesNothing]_vars

\* is_initialized asked after an init and the cleanup that followed it
C22_Witness ==
    /\ ios_last = "cleanup"
    /\ ios_ret = <<FALSE>>
    /\ Len(ios_dropped) = 1
    /\ ios_dropped[1].by = "cleanup"

\* C23: when a draw pass has been submitted, every texture the toolkit holds as
\* uploaded (it listed it in the `set` of this or an earlier tick's output and
\* has not released it) is a texture the GPU renderer has received
C23_UploadsReachGpuBeforeDraw ==
    pc \in {"present", "free"} => context.tex \subseteq egui_renderer.textures

\* C24: when a tick has returned, on either way out, no texture id listed in the
\* `free` of its output is allocated in the GPU renderer
C24_FreedTexturesReleased ==
    (pc = "Idle" /\ tick.status \in {"failed", "presented"}) =>
        \A i \in 1..Len(pass.textures_delta.free) :
            pass.textures_delta.free[i] \notin egui_renderer.textures

\* what a read of a slot returns after the calls of `log`, `write` and `read`
\* being the two calls of that slot: the text of the last write when no read
\* came after it, nothing otherwise
Pending(log, write, read) ==
    LET own == SelectSeq(log, LAMBDA c : c.op \in {write, read}) IN
    IF own = <<>> \/ own[Len(own)].op = read
    THEN <<>>
    ELSE <<own[Len(own)].text>>

\* the calls before the last one
Before(log) == SubSeq(log, 1, Len(log) - 1)

\* C25: get returns the text of the last receive_paste when no get came after
\* it and nothing otherwise; take_copy_content does the same for set_text; the
\* calls of the other slot play no part in either
C25_ClipboardTakeOnce ==
    /\ paste_content = Pending(clip_log, "receive_paste", "get")
    /\ copy_content = Pending(clip_log, "set_text", "take_copy_content")
    /\ clip_log # <<>> =>
        LET last == clip_log[Len(clip_log)] IN
        /\ last.op = "get" =>
                clip_ret = Pending(Before(clip_log), "receive_paste", "get")
        /\ last.op = "take_copy_content" =>
                clip_ret = Pending(Before(clip_log), "set_text", "take_copy_content")

\* two pastes received, a copy set in between, then the paste read
C25_Witness ==
    /\ clip_log = <<ClipOp("receive_paste", "a"), ClipOp("set_text", "a"),
                    ClipOp("receive_paste", "b"), ClipOp("get", "")>>
    /\ clip_ret = <<"b">>
    /\ paste_content = <<>>
    /\ copy_content = <<"a">>

====
